---- MODULE Spec2Model ----
(***************************************************************************)
(* Model of scripts/release.py: the release script that tags a version,    *)
(* builds it, asks the operator to verify the build, uploads it, pushes    *)
(* the tags and creates a draft release whose notes are composed from the  *)
(* hosted "generate-notes" body and the CHANGELOG.md section of the        *)
(* version.                                                                *)
(*                                                                         *)
(* Python strings that the script inspects character by character (the    *)
(* version, the notes bodies, the changelog) are sequences of one-char     *)
(* strings; strings it only compares (prompt answers, the token) are TLA+  *)
(* strings.  A global that may be None is a record, see None and Str.      *)
(***************************************************************************)
EXTENDS Integers, Sequences, FiniteSets, TLC

VARIABLES
    pc,                  \* the statement of the script that runs next
    exit_status,         \* <<>> while the process runs, <<n>> once it has ended
    GITHUB_TOKEN,        \* module global, read from the environment at import
    is_test,             \* module global
    version_number,      \* module global
    stdout,              \* what print() wrote, in order
    stderr,              \* what print(file=sys.stderr) and tracebacks wrote, in order
    effects,             \* every input() call and external command, in order
    confirmation,        \* local of verify_build
    git_tags,            \* local git tags
    remote_tags,         \* tags on origin
    dist_exists,         \* whether the dist folder exists
    dist_files,          \* number of files in dist
    tar_index,           \* files of dist already listed by tar in verify_build
    uploads,             \* package indexes the build was uploaded to
    changelog_file,      \* contents of CHANGELOG.md on disk
    command,             \* the -d argument of the last curl command
    curl_result,         \* return code and output of the last curl call
    github_release_body, \* local of create_release_notes_body
    url_match,           \* local match of get_release_notes_url
    release_notes_url,   \* local of create_release_notes_body
    changelog_match,     \* local match of get_changelog_release_notes
    changelog_notes,     \* local of create_release_notes_body
    full_release_notes,  \* local of create_release_notes_body
    release_body         \* local of create_github_release_draft

vars == <<pc, exit_status, GITHUB_TOKEN, is_test, version_number, stdout, stderr,
          effects, confirmation, git_tags, remote_tags, dist_exists, dist_files,
          tar_index, uploads, changelog_file, command, curl_result, github_release_body,
          url_match, release_notes_url, changelog_notes, changelog_match,
          full_release_notes, release_body>>

(***************************************************************************)
(* Bounds of the model.                                                    *)
(***************************************************************************)
\* invalid answers to the test-release prompt before a valid one
MaxInvalid == 1
\* files the build may leave in dist
MaxDistFiles == 3
\* fragments a changelog document is made of
MaxFragments == 3
\* lines of a hosted notes body
MaxBodyLines == 3

(***************************************************************************)
(* Python values.                                                          *)
(***************************************************************************)
None == [type |-> "NoneType"]

Str(s) == [type |-> "str", val |-> s]

\* a re.Match object: span and group(1)
Match(s, e, g) == [type |-> "Match", start |-> s, end |-> e, group1 |-> g]

Min(S) == CHOOSE x \in S : \A y \in S : x <= y

Max(S) == CHOOSE x \in S : \A y \in S : x >= y

\* truth value of `not x` for x None or a str
falsy(x) == x = None \/ x.val = ""

\* characters str.strip() removes
Whitespace == {" ", "\t", "\n", "\r", "\f"}

RECURSIVE lstrip(_)
lstrip(s) == IF s # <<>> /\ Head(s) \in Whitespace THEN lstrip(Tail(s)) ELSE s

RECURSIVE rstrip(_)
rstrip(s) ==
    IF s # <<>> /\ s[Len(s)] \in Whitespace THEN rstrip(SubSeq(s, 1, Len(s) - 1)) ELSE s

strip(s) == rstrip(lstrip(s))

\* str.replace(old, new, 1): only the first occurrence
RECURSIVE replace_first(_, _, _)
replace_first(s, old, new) ==
    IF s = <<>> THEN <<>>
    ELSE IF Head(s) = old THEN new \o Tail(s)
    ELSE <<Head(s)>> \o replace_first(Tail(s), old, new)

\* str.replace(old, new) for a one-character old
RECURSIVE replace(_, _, _)
replace(s, old, new) ==
    IF s = <<>> THEN <<>>
    ELSE (IF Head(s) = old THEN new ELSE <<Head(s)>>) \o replace(Tail(s), old, new)

\* lit stands in s at position i
LitAt(s, i, lit) ==
    /\ i >= 1
    /\ i + Len(lit) - 1 <= Len(s)
    /\ \A k \in 1..Len(lit) : s[i + k - 1] = lit[k]

\* position of the first newline at or after p, Len(s) + 1 when there is none
NextNewline(s, p) ==
    LET nl == {k \in p..Len(s) : s[k] = "\n"}
    IN  IF nl = {} THEN Len(s) + 1 ELSE Min(nl)

(***************************************************************************)
(* The re module, as far as the two patterns of the script use it.         *)
(***************************************************************************)
\* the characters re.escape puts a backslash before
SpecialChars ==
    {"(", ")", "[", "]", "{", "}", "?", "*", "+", "-", "|", "^", "$", "\\", ".",
     "&", "~", "#", " ", "\t", "\n", "\r", "\f"}

\* regex metacharacters: what an unescaped character of a pattern may mean
MetaChars == {"(", ")", "[", "]", "{", "}", "?", "*", "+", "|", "^", "$", "\\", "."}

re_escape_identity(s) == s

RECURSIVE re_escape(_)
re_escape(s) ==
    IF s = <<>> THEN <<>>
    ELSE (IF Head(s) \in SpecialChars THEN <<"\\", Head(s)>> ELSE <<Head(s)>>)
         \o re_escape(Tail(s))

Literal(c) == [kind |-> "literal", ch |-> c]

\* The atoms of a pattern text without groups, classes or repeats: a backslash
\* makes the special character after it a literal, "." is any character (the
\* pattern is compiled with re.DOTALL), any other metacharacter is kept as
\* "meta", an atom no character matches (re.escape leaves none unescaped).
RECURSIVE sre_parse(_)
sre_parse(p) ==
    IF p = <<>> THEN <<>>
    ELSE IF Head(p) = "\\" /\ Len(p) >= 2 /\ p[2] \in SpecialChars
         THEN <<Literal(p[2])>> \o sre_parse(SubSeq(p, 3, Len(p)))
    ELSE IF Head(p) = "." THEN <<[kind |-> "any", ch |-> "."]>> \o sre_parse(Tail(p))
    ELSE IF Head(p) \in MetaChars THEN <<[kind |-> "meta", ch |-> Head(p)]>> \o sre_parse(Tail(p))
    ELSE <<Literal(Head(p))>> \o sre_parse(Tail(p))

AtomMatches(a, c) ==
    CASE a.kind = "literal" -> c = a.ch
      [] a.kind = "any" -> TRUE
      [] OTHER -> FALSE

AtomsMatchAt(atoms, s, i) ==
    /\ i + Len(atoms) - 1 <= Len(s)
    /\ \A k \in 1..Len(atoms) : AtomMatches(atoms[k], s[i + k - 1])

\* "$" without re.MULTILINE: at the end of the string, or just before a newline
\* that is the last character of the string
AtDollar(s, k) == k = Len(s) + 1 \/ (k = Len(s) /\ s[k] = "\n")

HeadingMarker == <<"#", "#", " ">>

FullChangelogLabel ==
    <<"*", "*", "F", "u", "l", "l", " ", "C", "h", "a", "n", "g", "e", "l", "o", "g",
      "*", "*", ":", " ">>

\* url_pattern = \*\*Full Changelog\*\*: (.*)$   matched at position i, or None.
\* (.*) is greedy and stops at a newline; "$" must hold where it ends.
url_pattern_match_at(body, i) ==
    LET p == i + Len(FullChangelogLabel)
        top == NextNewline(body, p)
        ends == {k \in p..top : AtDollar(body, k)}
    IN  IF ~LitAt(body, i, FullChangelogLabel) \/ ends = {} THEN None
        ELSE Match(i, Max(ends), SubSeq(body, p, Max(ends) - 1))

\* url_pattern.search(body): the leftmost match
url_pattern_search(body) ==
    LET starts == {i \in 1..Len(body) : url_pattern_match_at(body, i) # None}
    IN  IF starts = {} THEN None ELSE url_pattern_match_at(body, Min(starts))

\* the atoms of  ## {re.escape(version_number)}\n : the version and the end of the line
changelog_pattern_head_whole_line(version) ==
    <<Literal("#"), Literal("#"), Literal(" ")>> \o sre_parse(re_escape(version))
    \o <<Literal("\n")>>

\* the atoms of  ## {re.escape(version_number)}
changelog_pattern_head(version) ==
    <<Literal("#"), Literal("#"), Literal(" ")>> \o sre_parse(re_escape(version))

\* pattern = ## {version}[^\n]*(.*?)##   with re.DOTALL, matched at position i,
\* or None.  [^\n]* is greedy and gives characters back until the rest can
\* match; (.*?) is lazy and crosses newlines; the closing "## " is required.
changelog_pattern_match_at(text, head, i) ==
    LET p == i + Len(head)
        top == NextNewline(text, p)
        closing == {q \in p..Len(text) : LitAt(text, q, HeadingMarker)}
    IN  IF ~AtomsMatchAt(head, text, i) \/ closing = {} THEN None
        ELSE LET e == Max({k \in p..top : \E q \in closing : q >= k})
                 q == Min({c \in closing : c >= e})
             IN  Match(i, q + Len(HeadingMarker), SubSeq(text, e, q - 1))

\* pattern.search(changelog_text): the leftmost match
changelog_pattern_search(text, version) ==
    LET head == changelog_pattern_head(version)
        starts == {i \in 1..Len(text) : changelog_pattern_match_at(text, head, i) # None}
    IN  IF starts = {} THEN None ELSE changelog_pattern_match_at(text, head, Min(starts))

(***************************************************************************)
(* Inputs: the texts the environment may hold.                             *)
(***************************************************************************)
\* the pieces joined by "\n"
RECURSIVE JoinLines(_)
JoinLines(ls) ==
    IF ls = <<>> THEN <<>>
    ELSE IF Len(ls) = 1 THEN ls[1]
    ELSE ls[1] \o <<"\n">> \o JoinLines(Tail(ls))

SeqsUpTo(S, n) == UNION {[1..k -> S] : k \in 0..n}

V200 == <<"2", ".", "0", ".", "0">>

V100 == <<"1", ".", "0", ".", "0">>

V123 == <<"1", ".", "2", ".", "3">>

VMeta == <<"1", "+", "(", "2", ")", "*">>

Versions == {V200, V100, V123, VMeta}

FixedBug == <<"F", "i", "x", "e", "d", " ", "b", "u", "g">>

\* "## 2.0.0\nA"
Frag200 == HeadingMarker \o V200 \o <<"\n", "A">>

\* "## 1.0.0\nB"
Frag100 == HeadingMarker \o V100 \o <<"\n", "B">>

\* "## 1x2y3\nC"
FragLookalike == HeadingMarker \o <<"1", "x", "2", "y", "3", "\n", "C">>

\* "## 1.2.3 (new)\n\nFixed bug\n"
Frag123 ==
    HeadingMarker \o V123 \o <<" ", "(", "n", "e", "w", ")", "\n", "\n">> \o FixedBug \o <<"\n">>

\* "## 1+(2)*\n D"
FragMeta == HeadingMarker \o VMeta \o <<"\n", " ", "D">>

\* "# Changelog"
FragTitle == <<"#", " ", "C", "h", "a", "n", "g", "e", "l", "o", "g">>

ChangelogFragments == {Frag200, Frag100, FragLookalike, Frag123, FragMeta, FragTitle}

Changelogs == {JoinLines(fs) : fs \in SeqsUpTo(ChangelogFragments, MaxFragments)}

\* "## 2.0.0\nA\n## 1.0.0\nB", a changelog without headings, and two more
FewChangelogs ==
    {JoinLines(<<Frag200, Frag100>>), FragTitle, JoinLines(<<Frag123, Frag100>>),
     JoinLines(<<FragLookalike, FragMeta>>)}

V10 == <<"1", ".", "0">>

\* "## 1.0.1\nX"
Frag101 == HeadingMarker \o <<"1", ".", "0", ".", "1", "\n", "X">>

\* "## 1.0\nY"
Frag10 == HeadingMarker \o V10 \o <<"\n", "Y">>

\* "### Fixes", a sub-heading inside a section
FragSubheading == <<"#", "#", "#", " ", "F", "i", "x", "e", "s">>

\* "see ## x", a line with the heading marker in its middle
FragMidline == <<"s", "e", "e", " ", "#", "#", " ", "x">>

\* a line with a double quote, a backslash, a tab and a carriage return:
\* 'say "hi" \d', tab, "t", carriage return, "r"
FragQuote ==
    <<"s", "a", "y", " ", "\"", "h", "i", "\"", " ", "\\", "d", "\t", "t", "\r", "r">>

SectionFragments == {Frag200, Frag101, Frag10, FragSubheading, FragMidline, FragQuote}

Sections == {JoinLines(fs) : fs \in SeqsUpTo(SectionFragments, MaxFragments)}

UrlX == <<"h", "t", "t", "p", "s", ":", "/", "/", "x">>

UrlCompare ==
    <<"h", "t", "t", "p", "s", ":", "/", "/", "e", "x", "a", "m", "p", "l", "e", ".",
      "c", "o", "m", "/", "c", "o", "m", "p", "a", "r", "e", "/", "a", ".", ".", ".", "b">>

Dots == <<".", ".", ".">>

BodyLines == {Dots, FullChangelogLabel \o UrlCompare, FullChangelogLabel \o UrlX, <<>>}

Bodies == {JoinLines(ls) : ls \in SeqsUpTo(BodyLines, MaxBodyLines)}

\* "", "...", "...\n**Full Changelog**: https://example.com/compare/a...b\n",
\* "**Full Changelog**: https://x" and a body whose link is not on the last line
FewBodies ==
    {<<>>, Dots, JoinLines(<<Dots, FullChangelogLabel \o UrlCompare, <<>>>>),
     FullChangelogLabel \o UrlX, JoinLines(<<FullChangelogLabel \o UrlX, Dots>>)}

\* what curl wrote to its standard output: not JSON, or a JSON object
NotJson == [json |-> FALSE]

Json(obj) == [json |-> TRUE, obj |-> obj]

\* the outcomes of a curl call that completed the transfer (curl is run without
\* --fail, so an HTTP error status is return code 0 too) and its output: a JSON
\* object with one of `bodies` as "body", or one of `others`
CurlResults(bodies, others) ==
    {[returncode |-> 0, stdout |-> out] :
        out \in {Json([body |-> b]) : b \in bodies} \cup others}

\* curl could not complete the transfer: a return code other than 0, no output
CurlFailed == [returncode |-> 7, stdout |-> NotJson]

ErrorObject == Json([message |-> "Bad credentials"])

ReleaseObject == Json([html_url |-> "https://github.com/releases/1"])

\* every outcome: each step may fail, each prompt may get any answer
FullEnv ==
    [tokens |-> {None, Str(""), Str("ghp")},
     test_answers |-> {"y", "n", "Y", ""},
     versions |-> Versions,
     returncodes |-> {0, 1},
     prior_dist |-> BOOLEAN,
     dist_counts |-> 0..MaxDistFiles,
     verify_answers |-> {"y", "n", "Y", "yes", ""},
     notes |-> CurlResults(FewBodies, {NotJson, ErrorObject}) \cup {CurlFailed},
     releases |-> CurlResults({}, {NotJson, ErrorObject, ReleaseObject}) \cup {CurlFailed},
     changelogs |-> FewChangelogs]

\* a run in which every step succeeds, over every changelog
ChangelogEnv ==
    [tokens |-> {Str("ghp")},
     test_answers |-> {"n"},
     versions |-> Versions,
     returncodes |-> {0},
     prior_dist |-> {TRUE},
     dist_counts |-> {2},
     verify_answers |-> {"y"},
     notes |-> CurlResults({<<>>, FullChangelogLabel \o UrlX}, {}),
     releases |-> CurlResults({}, {ReleaseObject}),
     changelogs |-> Changelogs]

\* a run in which every step succeeds, over changelogs whose sections hold
\* sub-headings, heading markers inside a line, quotes and backslashes
SectionsEnv ==
    [tokens |-> {Str("ghp")},
     test_answers |-> {"n"},
     versions |-> {V200, V10},
     returncodes |-> {0},
     prior_dist |-> {FALSE},
     dist_counts |-> {2},
     verify_answers |-> {"y"},
     notes |-> CurlResults({FullChangelogLabel \o UrlX}, {}),
     releases |-> CurlResults({}, {ReleaseObject}),
     changelogs |-> Sections]

\* a run in which every step succeeds, over every hosted notes body
BodyEnv ==
    [tokens |-> {Str("ghp")},
     test_answers |-> {"y"},
     versions |-> {V200},
     returncodes |-> {0},
     prior_dist |-> {FALSE},
     dist_counts |-> {2},
     verify_answers |-> {"y"},
     notes |-> CurlResults(Bodies, {}),
     releases |-> CurlResults({}, {ReleaseObject}),
     changelogs |-> {JoinLines(<<Frag200, Frag100>>), FragTitle}]

(***************************************************************************)
(* The script.                                                             *)
(***************************************************************************)
Warning(text, url) == [msg |-> text, url |-> url]

Effect(op, ok) == [op |-> op, ok |-> ok]

\* subprocess.run(..., check=True) raises CalledProcessError
check_ignored(returncode) == FALSE

CalledProcessError(returncode) == returncode # 0

\* an exception caught and only logged: the run ends as if it had succeeded
Swallowed(exception, err) ==
    /\ pc' = "exited"
    /\ exit_status' = <<0>>
    /\ stderr' = Append(err, Warning(exception, <<>>))

\* an exception nobody catches: the traceback goes to stderr, the status is 1
Uncaught(exception, err) ==
    /\ pc' = "exited"
    /\ exit_status' = <<1>>
    /\ stderr' = Append(err, Warning(exception, <<>>))

Init(env) ==
    /\ pc = "main"
    /\ exit_status = <<>>
    /\ GITHUB_TOKEN \in env.tokens
    /\ is_test = None
    /\ version_number = None
    /\ stdout = <<>>
    /\ stderr = <<>>
    /\ effects = <<>>
    /\ confirmation = None
    /\ git_tags = {}
    /\ remote_tags = {}
    /\ dist_exists \in env.prior_dist
    /\ dist_files = 0
    /\ tar_index = 0
    /\ uploads = {}
    /\ changelog_file \in env.changelogs
    /\ command = <<>>
    /\ curl_result = None
    /\ github_release_body = <<>>
    /\ url_match = None
    /\ release_notes_url = <<>>
    /\ changelog_match = None
    /\ changelog_notes = <<>>
    /\ full_release_notes = <<>>
    /\ release_body = <<>>

\* a handler that deletes the tags of the release that was given up
tags_deleted_on_raise(tags) == {}

\* main, lines 206-210: the calls stand in no try block, so an exception leaves
\* main with the local tags as they are
tags_after_raise(tags) == tags

notes_vars ==
    <<command, curl_result, github_release_body, url_match, release_notes_url, changelog_match,
      changelog_notes, full_release_notes, release_body>>

world_vars == <<git_tags, remote_tags, dist_exists, dist_files, uploads, changelog_file>>

input_vars == <<is_test, version_number, confirmation>>

\* `not GITHUB_TOKEN`
token_is_none(token) == token = None

token_missing(token) == falsy(token)

\* main, lines 191-197
main_check_token ==
    /\ pc = "main"
    /\ IF token_missing(GITHUB_TOKEN)
       THEN /\ stdout' = stdout \o <<"Starting the release process...",
                                     "Checking for github token environment variable...",
                                     "GITHUB_TOKEN environment variable not set.">>
            /\ pc' = "exited"
            /\ exit_status' = <<1>>
       ELSE /\ stdout' = stdout \o <<"Starting the release process...",
                                     "Checking for github token environment variable...",
                                     "GITHUB_TOKEN environment variable is good to go.">>
            /\ pc' = "input_is_test"
            /\ UNCHANGED exit_status
    /\ UNCHANGED <<GITHUB_TOKEN, stderr, effects, tar_index>>
    /\ UNCHANGED <<input_vars, world_vars, notes_vars>>

TestPrompt == "input: Is this a test release? (y/n): "

VersionPrompt == "input: Enter the version number: "

VerifyPrompt == "input: Does the build look correct? (y/n): "

InvalidInput == "Invalid input. Please enter 'y' or 'n'."

Count(log, x) == Cardinality({k \in 1..Len(log) : log[k] = x})

\* main, lines 199-202: one input() of the prompt and the loop test after it
main_input_is_test(env) ==
    /\ pc = "input_is_test"
    /\ \E answer \in env.test_answers :
        /\ answer \notin {"y", "n"} => Count(stdout, InvalidInput) < MaxInvalid
        /\ is_test' = Str(answer)
        /\ effects' = Append(effects, Effect(TestPrompt, TRUE))
        /\ IF answer \notin {"y", "n"}
           THEN /\ stdout' = Append(stdout, InvalidInput)
                /\ pc' = "input_is_test"
           ELSE /\ pc' = "input_version"
                /\ UNCHANGED stdout
    /\ UNCHANGED <<exit_status, GITHUB_TOKEN, version_number, confirmation, stderr, tar_index>>
    /\ UNCHANGED <<world_vars, notes_vars>>

\* main, line 204
main_input_version(env) ==
    /\ pc = "input_version"
    /\ \E version \in env.versions :
        /\ version_number' = Str(version)
        /\ effects' = Append(effects, Effect(VersionPrompt, TRUE))
    /\ pc' = "add_git_tag_for_version"
    /\ UNCHANGED <<exit_status, GITHUB_TOKEN, is_test, confirmation, stdout, stderr, tar_index>>
    /\ UNCHANGED <<world_vars, notes_vars>>

\* add_git_tag_for_version, lines 23-26
add_git_tag_for_version(env) ==
    /\ pc = "add_git_tag_for_version"
    /\ \E returncode \in env.returncodes :
        /\ effects' = Append(effects, Effect("git tag", returncode = 0))
        /\ git_tags' = IF returncode = 0 THEN git_tags \cup {version_number.val} ELSE git_tags
        /\ IF CalledProcessError(returncode)
           THEN Uncaught("CalledProcessError", stderr) /\ UNCHANGED stdout
           ELSE /\ stdout' = Append(stdout, "Version tag added successfully.")
                /\ pc' = "remove_previous_dist"
                /\ UNCHANGED <<exit_status, stderr>>
    /\ UNCHANGED <<GITHUB_TOKEN, input_vars, tar_index, notes_vars>>
    /\ UNCHANGED <<remote_tags, dist_exists, dist_files, uploads, changelog_file>>

\* remove_previous_dist, lines 29-32
remove_previous_dist(env) ==
    /\ pc = "remove_previous_dist"
    /\ \E returncode \in env.returncodes :
        /\ effects' = Append(effects, Effect("rm -rf dist/", returncode = 0))
        /\ dist_exists' = IF returncode = 0 THEN FALSE ELSE dist_exists
        /\ dist_files' = IF returncode = 0 THEN 0 ELSE dist_files
        /\ IF CalledProcessError(returncode)
           THEN Uncaught("CalledProcessError", stderr) /\ UNCHANGED stdout
           ELSE /\ stdout' = Append(stdout, "Previous dist folder removed successfully.")
                /\ pc' = "create_build"
                /\ UNCHANGED <<exit_status, stderr>>
    /\ UNCHANGED <<GITHUB_TOKEN, input_vars, tar_index, notes_vars>>
    /\ UNCHANGED <<git_tags, remote_tags, uploads, changelog_file>>

\* create_build, lines 35-38
create_build(env) ==
    /\ pc = "create_build"
    /\ \E returncode \in env.returncodes, files \in env.dist_counts :
        /\ effects' = Append(effects, Effect("python -m build", returncode = 0))
        /\ dist_exists' = (returncode = 0 \/ dist_exists)
        /\ dist_files' = IF returncode = 0 THEN files ELSE dist_files
        /\ IF CalledProcessError(returncode)
           THEN Uncaught("CalledProcessError", stderr) /\ UNCHANGED stdout
           ELSE /\ stdout' = Append(stdout, "Build created successfully.")
                /\ pc' = "verify_build"
                /\ UNCHANGED <<exit_status, stderr>>
    /\ UNCHANGED <<GITHUB_TOKEN, input_vars, tar_index, notes_vars>>
    /\ UNCHANGED <<git_tags, remote_tags, uploads, changelog_file>>

\* the number of files a build is expected to leave in dist
ExpectedDistFiles == 2

DistWarning == "WARNING: dist folder contains incorrect number of files."

\* `len(archives) != 2`
fewer_files_than_expected(files) == files < ExpectedDistFiles

incorrect_number_of_files(files) == files # ExpectedDistFiles

\* verify_build, lines 43-49: the count of dist, its warning, and ls
verify_build_list(env) ==
    /\ pc = "verify_build"
    /\ LET err == IF incorrect_number_of_files(dist_files)
                  THEN Append(stderr, Warning(DistWarning, <<>>))
                  ELSE stderr
       IN  IF ~dist_exists
           THEN Uncaught("FileNotFoundError", stderr) /\ UNCHANGED <<stdout, effects>>
           ELSE \E returncode \in env.returncodes :
                /\ effects' = Append(effects, Effect("ls -l dist/", returncode = 0))
                /\ IF CalledProcessError(returncode)
                   THEN /\ Uncaught("CalledProcessError", err)
                        /\ stdout' = Append(stdout, "Contents of dist folder:")
                   ELSE /\ stdout' = stdout \o <<"Contents of dist folder:",
                                                 "Contents of tar files in dist folder:">>
                        /\ stderr' = err
                        /\ pc' = IF dist_files = 0 THEN "verify_build_input" ELSE "verify_build_tar"
                        /\ UNCHANGED exit_status
    /\ tar_index' = 0
    /\ UNCHANGED <<GITHUB_TOKEN, input_vars, world_vars, notes_vars>>

\* verify_build, lines 50-51: one turn of the loop over the files of dist
verify_build_tar(env) ==
    /\ pc = "verify_build_tar"
    /\ tar_index < dist_files
    /\ \E returncode \in env.returncodes :
        /\ effects' = Append(effects, Effect("tar tvf", returncode = 0))
        /\ IF CalledProcessError(returncode)
           THEN Uncaught("CalledProcessError", stderr) /\ UNCHANGED tar_index
           ELSE /\ tar_index' = tar_index + 1
                /\ pc' = IF tar_index + 1 = dist_files THEN "verify_build_input" ELSE "verify_build_tar"
                /\ UNCHANGED <<exit_status, stderr>>
    /\ UNCHANGED <<GITHUB_TOKEN, stdout, input_vars, world_vars, notes_vars>>

\* `confirmation == "y"`
confirmed_ignoring_case(answer) == answer \in {"y", "Y"}

build_confirmed(answer) == answer = "y"

\* verify_build, lines 52-58: the prompt and its branch
verify_build_input(env) ==
    /\ pc = "verify_build_input"
    /\ \E answer \in env.verify_answers :
        /\ confirmation' = Str(answer)
        /\ effects' = Append(effects, Effect(VerifyPrompt, TRUE))
        /\ IF build_confirmed(answer)
           THEN /\ stdout' = Append(stdout, "Build verified successfully.")
                /\ pc' = "upload_build_to_pypi"
                /\ UNCHANGED <<exit_status, stderr>>
           ELSE /\ Uncaught("Exception: Could not verify. Build was not uploaded.", stderr)
                /\ UNCHANGED stdout
        /\ git_tags' = IF build_confirmed(answer) THEN git_tags ELSE tags_after_raise(git_tags)
    /\ UNCHANGED <<GITHUB_TOKEN, is_test, version_number, tar_index, notes_vars>>
    /\ UNCHANGED <<remote_tags, dist_exists, dist_files, uploads, changelog_file>>

UploadPyPI == "twine upload dist/*"

UploadTestPyPI == "twine upload --repository testpypi dist/*"

\* `is_test == "n"`, the test that picks the index
production_when_test(flag) == flag = Str("y")

to_production(flag) == flag = Str("n")

\* upload_build_to_pypi, lines 168-179
upload_build_to_pypi(env) ==
    /\ pc = "upload_build_to_pypi"
    /\ \E returncode \in env.returncodes :
        LET production == to_production(is_test)
        IN  /\ effects' = Append(effects, Effect(IF production THEN UploadPyPI ELSE UploadTestPyPI,
                                                 returncode = 0))
            /\ uploads' = IF returncode # 0 THEN uploads
                          ELSE uploads \cup {IF production THEN "pypi" ELSE "testpypi"}
            /\ IF CalledProcessError(returncode)
               THEN Uncaught("CalledProcessError", stderr) /\ git_tags' = tags_after_raise(git_tags)
               ELSE /\ pc' = "push_git_tags"
                    /\ UNCHANGED <<exit_status, stderr, git_tags>>
    /\ UNCHANGED <<GITHUB_TOKEN, stdout, input_vars, tar_index, notes_vars>>
    /\ UNCHANGED <<remote_tags, dist_exists, dist_files, changelog_file>>

\* push_git_tags, lines 182-184
push_git_tags(env) ==
    /\ pc = "push_git_tags"
    /\ \E returncode \in env.returncodes :
        /\ effects' = Append(effects, Effect("git push --tags", returncode = 0))
        /\ remote_tags' = IF returncode = 0 THEN remote_tags \cup git_tags ELSE remote_tags
        /\ IF CalledProcessError(returncode)
           THEN Uncaught("CalledProcessError", stderr) /\ git_tags' = tags_after_raise(git_tags)
           ELSE /\ pc' = "generate_github_release_notes_body"
                /\ UNCHANGED <<exit_status, stderr, git_tags>>
    /\ UNCHANGED <<GITHUB_TOKEN, stdout, input_vars, tar_index, notes_vars>>
    /\ UNCHANGED <<dist_exists, dist_files, uploads, changelog_file>>

\* f'{{"tag_name":"{version_number}"}}'
notes_request_data(version) ==
    <<"{", "\"", "t", "a", "g", "_", "n", "a", "m", "e", "\"", ":", "\"">> \o version
    \o <<"\"", "}">>

\* f'{{"tag_name":"{version_number}","name":"{version_number}","body":"{release_body}",
\*    "draft":true,"prerelease":false}}'
release_request_data(version, body) ==
    <<"{", "\"", "t", "a", "g", "_", "n", "a", "m", "e", "\"", ":", "\"">> \o version
    \o <<"\"", ",", "\"", "n", "a", "m", "e", "\"", ":", "\"">> \o version
    \o <<"\"", ",", "\"", "b", "o", "d", "y", "\"", ":", "\"">> \o body
    \o <<"\"", ",", "\"", "d", "r", "a", "f", "t", "\"", ":", "t", "r", "u", "e", ",",
         "\"", "p", "r", "e", "r", "e", "l", "e", "a", "s", "e", "\"", ":",
         "f", "a", "l", "s", "e", "}">>

GenerateNotesRequest == "curl -X POST .../releases/generate-notes"

CreateReleaseRequest == "curl -X POST .../releases"

\* generate_github_release_notes_body, lines 61-88: only CalledProcessError is
\* caught; json.loads and the ["body"] lookup raise past the function
generate_github_release_notes_body(env) ==
    /\ pc = "generate_github_release_notes_body"
    /\ \E response \in env.notes :
        /\ effects' = Append(effects, Effect(GenerateNotesRequest, response.returncode = 0))
        /\ command' = notes_request_data(version_number.val)
        /\ curl_result' = response
        /\ IF CalledProcessError(response.returncode)
           THEN /\ stderr' = Append(stderr, Warning("WARNING: Failed to generate release notes from Github", <<>>))
                /\ github_release_body' = <<>>
                /\ pc' = "get_release_notes_url"
                /\ UNCHANGED exit_status
           ELSE IF ~response.stdout.json
           THEN Uncaught("JSONDecodeError", stderr) /\ UNCHANGED github_release_body
           ELSE IF "body" \notin DOMAIN response.stdout.obj
           THEN Uncaught("KeyError", stderr) /\ UNCHANGED github_release_body
           ELSE /\ github_release_body' = response.stdout.obj.body
                /\ pc' = "get_release_notes_url"
                /\ UNCHANGED <<exit_status, stderr>>
    /\ UNCHANGED <<GITHUB_TOKEN, stdout, input_vars, tar_index, world_vars>>
    /\ UNCHANGED <<url_match, release_notes_url, changelog_match, changelog_notes,
                   full_release_notes, release_body>>

UrlWarning == "WARNING: Failed to parse release notes URL from GitHub response."

ChangelogWarning ==
    "WARNING: Failed to parse changelog release notes. Manually copy this version's notes from the CHANGELOG.md file to"

\* what get_release_notes_url returns for the match of its search
body_when_no_match(body, match) == IF match # None THEN match.group1 ELSE body

url_of_match(body, match) == IF match # None THEN match.group1 ELSE <<>>

\* get_release_notes_url, lines 91-102
get_release_notes_url ==
    /\ pc = "get_release_notes_url"
    /\ LET match == url_pattern_search(github_release_body)
       IN  /\ url_match' = match
           /\ release_notes_url' = url_of_match(github_release_body, match)
           /\ stderr' = IF match # None THEN stderr
                        ELSE Append(stderr, Warning(UrlWarning, <<>>))
    /\ pc' = "get_changelog_release_notes"
    /\ UNCHANGED <<exit_status, GITHUB_TOKEN, stdout, effects, input_vars, tar_index, world_vars>>
    /\ UNCHANGED <<command, curl_result, github_release_body, changelog_match, changelog_notes,
                   full_release_notes, release_body>>

\* what get_changelog_release_notes returns for the match of its search
text_when_no_match(text, match) == IF match # None THEN strip(match.group1) ELSE strip(text)

notes_of_match(text, match) == IF match # None THEN strip(match.group1) ELSE <<>>

\* get_changelog_release_notes, lines 105-124
get_changelog_release_notes ==
    /\ pc = "get_changelog_release_notes"
    /\ LET changelog_text == changelog_file
           match == changelog_pattern_search(changelog_text, version_number.val)
       IN  /\ changelog_match' = match
           /\ changelog_notes' = notes_of_match(changelog_text, match)
           /\ stderr' = IF match # None THEN stderr
                        ELSE Append(stderr, Warning(ChangelogWarning, release_notes_url))
    /\ pc' = "create_release_notes_body"
    /\ UNCHANGED <<exit_status, GITHUB_TOKEN, stdout, effects, input_vars, tar_index, world_vars>>
    /\ UNCHANGED <<command, curl_result, github_release_body, url_match, release_notes_url,
                   full_release_notes, release_body>>

\* changelog_notes + "\n\n**Full Changelog**: " + release_notes_url
compose_one_newline(notes, url) == notes \o <<"\n">> \o FullChangelogLabel \o url

compose(notes, url) == notes \o <<"\n", "\n">> \o FullChangelogLabel \o url

\* create_release_notes_body, lines 132-135
create_release_notes_body ==
    /\ pc = "create_release_notes_body"
    /\ full_release_notes' = compose(changelog_notes, release_notes_url)
    /\ pc' = "create_github_release_draft"
    /\ UNCHANGED <<exit_status, GITHUB_TOKEN, stdout, stderr, effects, input_vars, tar_index,
                   world_vars>>
    /\ UNCHANGED <<command, curl_result, github_release_body, url_match, release_notes_url,
                   changelog_match, changelog_notes, release_body>>

ReleaseWarning == "WARNING: There may have been an error creating this release."

\* `"html_url" in parsed_json`
any_response_is_success(parsed_json) == TRUE

release_created(parsed_json) == "html_url" \in DOMAIN parsed_json

\* create_github_release_draft, lines 141-165
create_github_release_draft(env) ==
    /\ pc = "create_github_release_draft"
    /\ release_body' = replace(full_release_notes, "\n", <<"\\", "n">>)
    /\ command' = release_request_data(version_number.val,
                                       replace(full_release_notes, "\n", <<"\\", "n">>))
    /\ \E response \in env.releases :
        /\ effects' = Append(effects, Effect(CreateReleaseRequest, response.returncode = 0))
        /\ curl_result' = response
        /\ IF CalledProcessError(response.returncode)
           THEN Uncaught("CalledProcessError", stderr) /\ UNCHANGED stdout
           ELSE IF ~response.stdout.json
           THEN Uncaught("JSONDecodeError", stderr) /\ UNCHANGED stdout
           ELSE /\ pc' = "exited"
                /\ exit_status' = <<0>>
                /\ IF release_created(response.stdout.obj)
                   THEN /\ stdout' = Append(stdout, "Release created successfully: ")
                        /\ UNCHANGED stderr
                   ELSE /\ stderr' = Append(stderr, Warning(ReleaseWarning, <<>>))
                        /\ UNCHANGED stdout
    /\ UNCHANGED <<GITHUB_TOKEN, input_vars, tar_index, world_vars>>
    /\ UNCHANGED <<github_release_body, url_match, release_notes_url, changelog_match,
                   changelog_notes, full_release_notes>>

Next(env) ==
    \/ main_check_token
    \/ main_input_is_test(env)
    \/ main_input_version(env)
    \/ add_git_tag_for_version(env)
    \/ remove_previous_dist(env)
    \/ create_build(env)
    \/ verify_build_list(env)
    \/ verify_build_tar(env)
    \/ verify_build_input(env)
    \/ upload_build_to_pypi(env)
    \/ push_git_tags(env)
    \/ generate_github_release_notes_body(env)
    \/ get_release_notes_url
    \/ get_changelog_release_notes
    \/ create_release_notes_body
    \/ create_github_release_draft(env)

\* every run of the script
Spec == Init(FullEnv) /\ [][Next(FullEnv)]_vars

\* the runs that reach the release notes, over every changelog
SpecChangelog == Init(ChangelogEnv) /\ [][Next(ChangelogEnv)]_vars

\* the runs that reach the release notes, over every hosted notes body
SpecBody == Init(BodyEnv) /\ [][Next(BodyEnv)]_vars

\* the runs that reach the release notes, over changelogs with structured sections
SpecSections == Init(SectionsEnv) /\ [][Next(SectionsEnv)]_vars

(***************************************************************************)
(* What the claims speak about.                                            *)
(***************************************************************************)
Performed(op) == \E k \in 1..Len(effects) : effects[k].op = op

Logged(text) == \E k \in 1..Len(stderr) : stderr[k].msg = text

LastEffectIs(op) == effects # <<>> /\ effects[Len(effects)].op = op

Uploads == {UploadPyPI, UploadTestPyPI}

\* the place of a step in the release sequence, 0 for what the sequence does not name
Rank(op) ==
    CASE op = "git tag" -> 1
      [] op = "rm -rf dist/" -> 2
      [] op = "python -m build" -> 3
      [] op = VerifyPrompt -> 4
      [] op \in Uploads -> 5
      [] op = "git push --tags" -> 6
      [] op = GenerateNotesRequest -> 7
      [] op = CreateReleaseRequest -> 8
      [] OTHER -> 0

\* the external tool invocations whose failure is fatal
FatalTools == {"git tag", "rm -rf dist/", "python -m build", "git push --tags"} \cup Uploads

TokenAbsent == GITHUB_TOKEN = None \/ GITHUB_TOKEN = Str("")

\* C1: when the token is unset or empty, the run reads no prompt and runs no
\* command, it is either still at its start or has ended, and when it has ended
\* the diagnostic was the last thing printed and the exit status is 1.
C1_MissingTokenExitsBeforeAnyEffect ==
    TokenAbsent =>
        /\ effects = <<>>
        /\ pc \in {"main", "exited"}
        /\ pc = "exited" =>
            /\ exit_status = <<1>>
            /\ stdout[Len(stdout)] = "GITHUB_TOKEN environment variable not set."

C1_Witness == GITHUB_TOKEN = Str("") /\ pc = "exited" /\ exit_status = <<1>>

\* C2: the verification question is asked at most once, and once it is answered
\* exactly once; an upload happens only after the answer "y"; after any other
\* answer the run has ended with the exception's traceback and status 1 and no
\* upload, tag push, notes request or draft-release request was performed.
C2_OnlyExactYUploads ==
    /\ Count([k \in 1..Len(effects) |-> effects[k].op], VerifyPrompt)
         = (IF confirmation = None THEN 0 ELSE 1)
    /\ (\E op \in Uploads : Performed(op)) => confirmation = Str("y")
    /\ (confirmation # None /\ confirmation # Str("y")) =>
        /\ pc = "exited"
        /\ exit_status = <<1>>
        /\ stderr[Len(stderr)].msg = "Exception: Could not verify. Build was not uploaded."
        /\ LastEffectIs(VerifyPrompt)
        /\ \A k \in 1..Len(effects) : Rank(effects[k].op) <= Rank(VerifyPrompt)

C2_Witness == confirmation = Str("Y") /\ pc = "exited" /\ LastEffectIs(VerifyPrompt)

\* C3: the steps of the release sequence are performed in the fixed order, none
\* twice and none before all the earlier ones; a step is performed only after
\* every earlier tool invocation (tag, clean, build, upload, tag push) returned
\* success and the operator answered "y"; a failed tool invocation is the last
\* thing the run does, it ends with status 1.  (The hosted-notes request is the
\* one step whose failure is caught, see C4: it completes by returning.)
C3_FixedOrderStopAtFailure ==
    /\ \A i, j \in 1..Len(effects) :
        (i < j /\ Rank(effects[i].op) > 0 /\ Rank(effects[j].op) > 0) =>
            /\ Rank(effects[i].op) < Rank(effects[j].op)
            /\ effects[i].op \in FatalTools => effects[i].ok
            /\ effects[i].op = VerifyPrompt => confirmation = Str("y")
    /\ \A j \in 1..Len(effects) : \A r \in 1..(Rank(effects[j].op) - 1) :
        \E i \in 1..(j - 1) : Rank(effects[i].op) = r
    /\ \A i \in 1..Len(effects) :
        (effects[i].op \in FatalTools /\ ~effects[i].ok) =>
            i = Len(effects) /\ pc = "exited" /\ exit_status = <<1>>

\* a failed upload: tag, clean and build were done, nothing after the upload
C3_Witness ==
    /\ \E i \in 1..Len(effects) : effects[i].op \in Uploads /\ ~effects[i].ok
    /\ Performed("python -m build")
    /\ pc = "exited"

\* the generate-notes response is a transport failure or not a success: curl
\* failed, or its output is not JSON, or it is JSON without a "body" field
NotesResponseFailed ==
    \/ curl_result.returncode # 0
    \/ ~curl_result.stdout.json
    \/ "body" \notin DOMAIN curl_result.stdout.obj

\* C4: after a failed or non-success generate-notes response (not JSON and JSON
\* without "body" included) the function has returned the empty string and
\* logged its warning, and the run goes on with get_release_notes_url: no
\* exception has ended it.
C4_NotesFetchFailsSoft ==
    (LastEffectIs(GenerateNotesRequest) /\ NotesResponseFailed) =>
        /\ pc = "get_release_notes_url"
        /\ github_release_body = <<>>
        /\ stderr # <<>>
        /\ stderr[Len(stderr)].msg = "WARNING: Failed to generate release notes from Github"

\* the positions where a line of text begins with lit
LinesStartingWith(text, lit) ==
    {i \in 1..Len(text) : (i = 1 \/ text[i - 1] = "\n") /\ LitAt(text, i, lit)}

\* get_changelog_release_notes has returned
ChangelogSearched ==
    \/ pc \in {"create_release_notes_body", "create_github_release_draft"}
    \/ Performed(CreateReleaseRequest)

\* C5: when the changelog has exactly one heading of the requested version and
\* no "## " stands anywhere after it, the section is found and the text
\* returned is the rest of the document after the heading line, trimmed.
C5_LastSectionEndsAtEndOfDocument ==
    LET text == changelog_file
        headings == LinesStartingWith(text, HeadingMarker \o version_number.val)
    IN  (/\ ChangelogSearched
         /\ Cardinality(headings) = 1
         /\ \A i \in headings : \A q \in (i + 1)..Len(text) : ~LitAt(text, q, HeadingMarker))
        => /\ changelog_match # None
           /\ \A i \in headings :
                changelog_notes = strip(SubSeq(text, NextNewline(text, i), Len(text)))

\* C6: a match of the changelog pattern begins with "## " followed directly by
\* exactly the characters of the version identifier, whatever pattern-special
\* characters the identifier contains.
C6_VersionMatchedLiterally ==
    changelog_match # None =>
        /\ LitAt(changelog_file, changelog_match.start, HeadingMarker)
        /\ LitAt(changelog_file, changelog_match.start + Len(HeadingMarker), version_number.val)

\* "1.2.3" was extracted from a changelog where "## 1x2y3" stands before the
\* heading of 1.2.3: the match is the later heading
C6_Witness ==
    /\ version_number = Str(V123)
    /\ changelog_match # None
    /\ \E i \in 1..Len(changelog_file) :
        /\ LitAt(changelog_file, i, HeadingMarker \o <<"1", "x", "2", "y", "3">>)
        /\ i < changelog_match.start
    /\ Performed(CreateReleaseRequest)

\* C7: when "## " followed by the version stands nowhere in the changelog, the
\* function has returned the empty string and logged its warning; and whenever
\* that warning was logged the notes are empty and the run does not end before
\* the draft-release request was issued.
C7_NoHeadingDegradesWithoutAbort ==
    /\ (/\ pc \in {"create_release_notes_body", "create_github_release_draft"}
        /\ \A i \in 1..Len(changelog_file) :
            ~LitAt(changelog_file, i, HeadingMarker \o version_number.val))
       => /\ changelog_match = None
          /\ changelog_notes = <<>>
          /\ Logged(ChangelogWarning)
    /\ Logged(ChangelogWarning) =>
        /\ changelog_notes = <<>>
        /\ pc \in {"create_release_notes_body", "create_github_release_draft", "exited"}
        /\ pc = "exited" => Performed(CreateReleaseRequest)
        /\ Performed(CreateReleaseRequest) =>
            full_release_notes = <<"\n", "\n">> \o FullChangelogLabel \o release_notes_url

\* a changelog with headings, none of the version: the request was issued
C7_Witness ==
    /\ Logged(ChangelogWarning)
    /\ Performed(CreateReleaseRequest)
    /\ LinesStartingWith(changelog_file, HeadingMarker) # {}
    /\ \A i \in 1..Len(changelog_file) :
        ~LitAt(changelog_file, i, HeadingMarker \o version_number.val)

\* get_release_notes_url has returned
UrlParsed ==
    \/ pc \in {"get_changelog_release_notes", "create_release_notes_body",
               "create_github_release_draft"}
    \/ Performed(CreateReleaseRequest)

\* C8: when exactly one line of the hosted notes body begins with the Full
\* Changelog label, the URL returned is the rest of that line.
C8_UrlOfFullChangelogLineAnywhere ==
    LET body == github_release_body
        links == LinesStartingWith(body, FullChangelogLabel)
    IN  (UrlParsed /\ Cardinality(links) = 1) =>
            \A i \in links :
                release_notes_url =
                    SubSeq(body, i + Len(FullChangelogLabel), NextNewline(body, i) - 1)

\* the body does not contain the Full Changelog label
NoFullChangelogLabel == \A i \in 1..Len(github_release_body) :
    ~LitAt(github_release_body, i, FullChangelogLabel)

EndsWith(s, suffix) ==
    Len(s) >= Len(suffix) /\ SubSeq(s, Len(s) - Len(suffix) + 1, Len(s)) = suffix

\* C9: when the body holds no Full Changelog label, the URL returned is empty
\* and the warning was logged; and whenever that warning was logged the URL is
\* empty, the run does not end before the draft-release request was issued, and
\* the composed notes end with the label.
C9_NoLinkGivesEmptyUrl ==
    /\ (UrlParsed /\ NoFullChangelogLabel) =>
        /\ url_match = None
        /\ release_notes_url = <<>>
        /\ Logged(UrlWarning)
    /\ Logged(UrlWarning) =>
        /\ release_notes_url = <<>>
        /\ pc = "exited" => Performed(CreateReleaseRequest)
        /\ (pc = "create_github_release_draft" \/ Performed(CreateReleaseRequest)) =>
            EndsWith(full_release_notes, FullChangelogLabel)

\* a body with text and no link: the notes were composed and the request issued
C9_Witness ==
    /\ github_release_body = Dots
    /\ Logged(UrlWarning)
    /\ Performed(CreateReleaseRequest)
    /\ EndsWith(full_release_notes, <<"*", "*", ":", " ">>)

\* C10: the composed notes are the section, two newlines, the label and the
\* URL, in this order and with nothing else.
C10_ComposeIsConcatenation ==
    (pc = "create_github_release_draft" \/ Performed(CreateReleaseRequest)) =>
        LET n == Len(changelog_notes)
            l == Len(FullChangelogLabel)
        IN  /\ Len(full_release_notes) = n + 2 + l + Len(release_notes_url)
            /\ SubSeq(full_release_notes, 1, n) = changelog_notes
            /\ full_release_notes[n + 1] = "\n"
            /\ full_release_notes[n + 2] = "\n"
            /\ SubSeq(full_release_notes, n + 3, n + 2 + l) = FullChangelogLabel
            /\ SubSeq(full_release_notes, n + 3 + l, Len(full_release_notes)) = release_notes_url

\* "Fixed bug" and "https://x" give "Fixed bug\n\n**Full Changelog**: https://x"
C10_Witness ==
    /\ changelog_notes = FixedBug
    /\ release_notes_url = UrlX
    /\ full_release_notes =
        <<"F", "i", "x", "e", "d", " ", "b", "u", "g", "\n", "\n", "*", "*", "F", "u",
          "l", "l", " ", "C", "h", "a", "n", "g", "e", "l", "o", "g", "*", "*", ":", " ",
          "h", "t", "t", "p", "s", ":", "/", "/", "x">>

\* C11: once the draft-release request is sent, the text embedded in it holds no
\* newline character: it is the composed notes with each newline replaced by the
\* two characters backslash and "n", and every other character kept in place
C11_NewlinesEscapedForTransport ==
    Performed(CreateReleaseRequest) =>
        LET notes == full_release_notes
            newlines_before(k) == Cardinality({j \in 1..(k - 1) : notes[j] = "\n"})
        IN  /\ \A i \in 1..Len(release_body) : release_body[i] # "\n"
            /\ Len(release_body) = Len(notes) + newlines_before(Len(notes) + 1)
            /\ \A k \in 1..Len(notes) :
                 LET p == k + newlines_before(k)
                 IN  IF notes[k] = "\n"
                     THEN release_body[p] = "\\" /\ release_body[p + 1] = "n"
                     ELSE release_body[p] = notes[k]

\* a request sent with notes of several lines
C11_Witness ==
    /\ Performed(CreateReleaseRequest)
    /\ Cardinality({k \in 1..Len(full_release_notes) : full_release_notes[k] = "\n"}) >= 2
    /\ changelog_notes # <<>>
    /\ release_body # full_release_notes

ValidTestAnswers == {Str("y"), Str("n")}

\* a step that leaves a valid answer as it is and does not ask for it again
TestAnswerKept ==
    is_test \in ValidTestAnswers =>
        /\ is_test' = is_test
        /\ Len(effects') > Len(effects) => effects'[Len(effects')].op # TestPrompt

\* C12: the test-release prompt is asked again as long as the answer is not
\* exactly "y" or "n"; nothing but that prompt happens before such an answer;
\* once given, the answer is never changed and the prompt never asked again; and
\* an upload goes to the production index exactly when the answer was "n", to
\* the test index exactly when it was "y"
C12_UploadTargetFixedUpfront ==
    /\ [](/\ (is_test # None /\ is_test \notin ValidTestAnswers) => pc = "input_is_test"
          /\ (\E k \in 1..Len(effects) : effects[k].op # TestPrompt) =>
                is_test \in ValidTestAnswers
          /\ Count(stdout, InvalidInput) + (IF is_test \in ValidTestAnswers THEN 1 ELSE 0)
                = Cardinality({k \in 1..Len(effects) : effects[k].op = TestPrompt})
          /\ (Performed(UploadPyPI) \/ "pypi" \in uploads) <=>
                ((\E op \in Uploads : Performed(op)) /\ is_test = Str("n"))
          /\ (Performed(UploadTestPyPI) \/ "testpypi" \in uploads) <=>
                ((\E op \in Uploads : Performed(op)) /\ is_test = Str("y")))
    /\ [][TestAnswerKept]_vars

\* a production upload after the prompt had to be repeated
C12_Witness ==
    /\ Count(stdout, InvalidInput) >= 1
    /\ is_test = Str("n")
    /\ Performed(UploadPyPI)
    /\ "pypi" \in uploads

\* C13: once verify_build has counted and listed dist, the count warning is
\* logged exactly when the count is not two, and whatever the count is, only a
\* failing ls or tar keeps the verification question from being asked, the
\* answer "y" is followed by the upload, and a successful upload by the tag push
C13_WrongCountOnlyWarns ==
    Performed("ls -l dist/") =>
        /\ Logged(DistWarning) <=> dist_files # 2
        /\ ~Performed(VerifyPrompt) =>
              \/ pc \in {"verify_build_tar", "verify_build_input"}
              \/ /\ pc = "exited"
                 /\ effects[Len(effects)].op \in {"ls -l dist/", "tar tvf"}
                 /\ ~effects[Len(effects)].ok
        /\ confirmation = Str("y") =>
              pc = "upload_build_to_pypi" \/ \E op \in Uploads : Performed(op)
        /\ (\E k \in 1..Len(effects) : effects[k].op \in Uploads /\ effects[k].ok) =>
              pc = "push_git_tags" \/ Performed("git push --tags")

\* a build of three files, warned about, confirmed, uploaded and its tag pushed
C13_Witness ==
    /\ dist_files = 3
    /\ Logged(DistWarning)
    /\ confirmation = Str("y")
    /\ uploads # {}
    /\ version_number.val \in remote_tags

\* a fatal step has happened: the token check found no token, one of the
\* commands of the release sequence failed, or the operator rejected the build
FatalStepHappened ==
    \/ TokenAbsent /\ pc # "main"
    \/ \E k \in 1..Len(effects) : effects[k].op \in FatalTools /\ ~effects[k].ok
    \/ confirmation # None /\ confirmation # Str("y")

\* C14: after a fatal step the run has ended with a non-zero status, and a run
\* that ended with status 0 had a token, ran tag creation, dist removal, build,
\* upload and tag push with success, and got the answer "y"
C14_NoZeroStatusAfterFatalStep ==
    /\ FatalStepHappened =>
          pc = "exited" /\ Len(exit_status) = 1 /\ exit_status[1] # 0
    /\ exit_status = <<0>> =>
          /\ ~TokenAbsent
          /\ confirmation = Str("y")
          /\ \A op \in {"git tag", "rm -rf dist/", "python -m build", "git push --tags"} :
                \E k \in 1..Len(effects) : effects[k].op = op /\ effects[k].ok
          /\ \E k \in 1..Len(effects) : effects[k].op \in Uploads /\ effects[k].ok
          /\ \A k \in 1..Len(effects) : effects[k].op \in FatalTools => effects[k].ok

\* the last fatal step, the tag push, failed after a successful upload
C14_Witness ==
    /\ \E k \in 1..Len(effects) : effects[k].op = "git push --tags" /\ ~effects[k].ok
    /\ uploads # {}
    /\ pc = "exited"
    /\ exit_status = <<1>>

\* C15: when the changelog has a heading line of the requested version and a
\* later line that starts with "## ", the text returned is everything between
\* the end of the first such heading line and the next line starting with "## ",
\* trimmed, whatever "## " the lines in between contain
C15_SectionEndsAtNextHeadingLine ==
    LET text == changelog_file
        headings == LinesStartingWith(text, HeadingMarker \o version_number.val)
        first == Min(headings)
        later == {q \in LinesStartingWith(text, HeadingMarker) : q > first}
    IN  (ChangelogSearched /\ headings # {} /\ later # {}) =>
            /\ changelog_match # None
            /\ changelog_notes = strip(SubSeq(text, NextNewline(text, first), Min(later) - 1))

(***************************************************************************)
(* JSON text as a parser reads it (RFC 8259), for objects whose values are  *)
(* strings, true or false: what the receiver of a request body decodes.     *)
(***************************************************************************)
JsonInvalid == [ok |-> FALSE]

JsonWhitespace == {" ", "\t", "\n", "\r"}

\* characters that may not stand unescaped inside a JSON string
JsonControlChars == {"\n", "\r", "\t", "\f"}

\* the character a two-character escape stands for ("\b" is named, not written)
JsonEscapes ==
    [c \in {"\"", "\\", "/", "b", "f", "n", "r", "t"} |->
        CASE c = "b" -> "backspace"
          [] c = "f" -> "\f"
          [] c = "n" -> "\n"
          [] c = "r" -> "\r"
          [] c = "t" -> "\t"
          [] OTHER -> c]

\* first position at or after i that holds no whitespace
RECURSIVE JsonSkip(_, _)
JsonSkip(s, i) == IF i <= Len(s) /\ s[i] \in JsonWhitespace THEN JsonSkip(s, i + 1) ELSE i

HexDigits ==
    {"0", "1", "2", "3", "4", "5", "6", "7", "8", "9",
     "a", "b", "c", "d", "e", "f", "A", "B", "C", "D", "E", "F"}

\* the characters of a string's text with each escape replaced by the character
\* it stands for; the character of a \uXXXX escape is named by its code point
RECURSIVE JsonUnescape(_)
JsonUnescape(raw) ==
    LET backslashes == {k \in 1..Len(raw) : raw[k] = "\\"}
        p == Min(backslashes)
        unicode == /\ p + 5 <= Len(raw)
                   /\ raw[p + 1] = "u"
                   /\ \A k \in (p + 2)..(p + 5) : raw[k] \in HexDigits
        size == IF unicode THEN 6 ELSE 2
        rest == JsonUnescape(SubSeq(raw, p + size, Len(raw)))
        char == IF unicode THEN "U+" \o raw[p + 2] \o raw[p + 3] \o raw[p + 4] \o raw[p + 5]
                ELSE JsonEscapes[raw[p + 1]]
    IN  IF backslashes = {} THEN [ok |-> TRUE, val |-> raw]
        ELSE IF p + 1 > Len(raw) THEN JsonInvalid
        ELSE IF ~unicode /\ raw[p + 1] \notin DOMAIN JsonEscapes THEN JsonInvalid
        ELSE IF ~rest.ok THEN JsonInvalid
        ELSE [ok |-> TRUE, val |-> SubSeq(raw, 1, p - 1) \o <<char>> \o rest.val]

\* the string whose text begins at position i, after its opening quote: it ends
\* at the first quote that an even number of backslashes stands before
JsonString(s, i) ==
    LET backslashes_before(j) ==
            Max({k \in 0..(j - i) : \A m \in 1..k : s[j - m] = "\\"})
        closing == {j \in i..Len(s) : s[j] = "\"" /\ backslashes_before(j) % 2 = 0}
        q == Min(closing)
        raw == SubSeq(s, i, q - 1)
        text == JsonUnescape(raw)
    IN  IF closing = {} THEN JsonInvalid
        ELSE IF \E k \in 1..Len(raw) : raw[k] \in JsonControlChars THEN JsonInvalid
        ELSE IF ~text.ok THEN JsonInvalid
        ELSE [ok |-> TRUE, val |-> Str(text.val), next |-> q + 1]

JsonValue(s, i) ==
    IF i > Len(s) THEN JsonInvalid
    ELSE IF s[i] = "\"" THEN JsonString(s, i + 1)
    ELSE IF LitAt(s, i, <<"t", "r", "u", "e">>) THEN [ok |-> TRUE, val |-> TRUE, next |-> i + 4]
    ELSE IF LitAt(s, i, <<"f", "a", "l", "s", "e">>)
    THEN [ok |-> TRUE, val |-> FALSE, next |-> i + 5]
    ELSE JsonInvalid

\* the members of an object from position i on, added to obj; a name that comes
\* twice keeps its last value
RECURSIVE JsonMembers(_, _, _)
JsonMembers(s, i, obj) ==
    LET k == JsonSkip(s, i)
        name == IF k <= Len(s) /\ s[k] = "\"" THEN JsonString(s, k + 1) ELSE JsonInvalid
    IN  IF ~name.ok THEN JsonInvalid
        ELSE LET c == JsonSkip(s, name.next)
                 value == IF c <= Len(s) /\ s[c] = ":"
                          THEN JsonValue(s, JsonSkip(s, c + 1)) ELSE JsonInvalid
             IN  IF ~value.ok THEN JsonInvalid
                 ELSE LET e == JsonSkip(s, value.next)
                          members == [n \in DOMAIN obj \cup {name.val.val} |->
                                        IF n = name.val.val THEN value.val ELSE obj[n]]
                      IN  IF e > Len(s) THEN JsonInvalid
                          ELSE IF s[e] = "," THEN JsonMembers(s, e + 1, members)
                          ELSE IF s[e] = "}" /\ JsonSkip(s, e + 1) > Len(s)
                          THEN [ok |-> TRUE, obj |-> members]
                          ELSE JsonInvalid

\* the object a JSON text stands for
JsonObject(s) ==
    LET b == JsonSkip(s, 1)
    IN  IF b > Len(s) \/ s[b] # "{" THEN JsonInvalid
        ELSE IF LET e == JsonSkip(s, b + 1)
                IN  e <= Len(s) /\ s[e] = "}" /\ JsonSkip(s, e + 1) > Len(s)
        THEN [ok |-> TRUE, obj |-> <<>>]
        ELSE JsonMembers(s, b + 1, <<>>)

\* C16: the request body sent for the draft release is a JSON object whose
\* "body" member decodes to exactly the composed notes
C16_RequestBodyIsJsonOfNotes ==
    Performed(CreateReleaseRequest) =>
        LET parsed == JsonObject(command)
        IN  /\ parsed.ok
            /\ <<"b", "o", "d", "y">> \in DOMAIN parsed.obj
            /\ parsed.obj[<<"b", "o", "d", "y">>] = Str(full_release_notes)

\* C17: when the changelog search found no heading, the warning logged for it
\* carries the URL that get_release_notes_url returned, and that URL is not
\* empty when a line of the hosted notes body begins with the Full Changelog
\* label and goes on after it
C17_DegradedWarningNamesUrl ==
    LET body == github_release_body
        links == {i \in LinesStartingWith(body, FullChangelogLabel) :
                     NextNewline(body, i) > i + Len(FullChangelogLabel)}
    IN  (ChangelogSearched /\ changelog_match = None) =>
            \E k \in 1..Len(stderr) :
                /\ stderr[k].msg = ChangelogWarning
                /\ stderr[k].url = release_notes_url
                /\ links # {} => stderr[k].url # <<>>

\* the run was given up after the build: the operator rejected it, or the
\* upload or the tag push failed
AbortedAfterBuild ==
    \/ confirmation # None /\ confirmation # Str("y")
    \/ \E k \in 1..Len(effects) :
          effects[k].op \in Uploads \cup {"git push --tags"} /\ ~effects[k].ok

\* a step that removes no local tag and no upload and, once the build is made,
\* leaves dist as it is
NothingRolledBack ==
    /\ git_tags \subseteq git_tags'
    /\ uploads \subseteq uploads'
    /\ Performed(VerifyPrompt) => dist_exists' = dist_exists /\ dist_files' = dist_files

\* C18: after the operator rejected the build or the upload or the tag push
\* failed, the local tag of the version exists and dist is there, and after a
\* failed tag push the package is on the index the upload went to; no step
\* removes a tag or an upload or changes dist after the verification
C18_AbortRollsNothingBack ==
    /\ [](AbortedAfterBuild =>
            /\ pc = "exited"
            /\ version_number.val \in git_tags
            /\ dist_exists
            /\ (\E k \in 1..Len(effects) : effects[k].op = "git push --tags" /\ ~effects[k].ok)
                  => uploads = {IF is_test = Str("n") THEN "pypi" ELSE "testpypi"})
    /\ [][NothingRolledBack]_vars

\* the tag push failed: the tag is still there, the build too, the package is uploaded
C18_Witness ==
    /\ \E k \in 1..Len(effects) : effects[k].op = "git push --tags" /\ ~effects[k].ok
    /\ pc = "exited"
    /\ version_number.val \in git_tags
    /\ dist_exists /\ dist_files = 2
    /\ uploads # {}
    /\ remote_tags = {}

\* the draft-release request returned a JSON object
ReleaseResponseParsed ==
    /\ Performed(CreateReleaseRequest)
    /\ curl_result.returncode = 0
    /\ curl_result.stdout.json

\* C19: when the draft-release request returned JSON without "html_url", the
\* run has ended with exit status 0, as it has when "html_url" is there; the
\* warning is the last and only thing logged for it, the success line was not
\* printed, and the request was sent once
C19_MissingHtmlUrlOnlyWarns ==
    ReleaseResponseParsed =>
        /\ pc = "exited"
        /\ exit_status = <<0>>
        /\ Cardinality({k \in 1..Len(effects) : effects[k].op = CreateReleaseRequest}) = 1
        /\ LastEffectIs(CreateReleaseRequest)
        /\ IF "html_url" \in DOMAIN curl_result.stdout.obj
           THEN /\ ~Logged(ReleaseWarning)
                /\ stdout[Len(stdout)] = "Release created successfully: "
           ELSE /\ stderr[Len(stderr)].msg = ReleaseWarning
                /\ Cardinality({k \in 1..Len(stderr) : stderr[k].msg = ReleaseWarning}) = 1
                /\ Count(stdout, "Release created successfully: ") = 0

\* the response was an error object: warned, ended with status 0
C19_Witness ==
    /\ ReleaseResponseParsed
    /\ curl_result.stdout = ErrorObject
    /\ Logged(ReleaseWarning)
    /\ pc = "exited"
    /\ exit_status = <<0>>

\* C20: when heading lines of the changelog start with "## " and the requested
\* identifier, a match begins at the first of them in document order; when
\* there are several, there is a match, and the text returned is the trimmed
\* text after the line of the first one, up to the next "## ", even where the
\* version of that heading is longer than the identifier
C20_FirstHeadingWithIdentifierWins ==
    LET text == changelog_file
        headings == LinesStartingWith(text, HeadingMarker \o version_number.val)
        first == Min(headings)
        body == NextNewline(text, first)
        closing == Min({q \in body..Len(text) : LitAt(text, q, HeadingMarker)})
    IN  (ChangelogSearched /\ headings # {}) =>
            /\ changelog_match # None => changelog_match.start = first
            /\ Cardinality(headings) >= 2 =>
                  /\ changelog_match # None
                  /\ changelog_notes = strip(SubSeq(text, body, closing - 1))

\* "1.0" was asked for, "## 1.0.1" stands before "## 1.0": the notes are those of 1.0.1
C20_Witness ==
    /\ Performed(CreateReleaseRequest)
    /\ version_number = Str(V10)
    /\ changelog_file = JoinLines(<<Frag101, Frag10, Frag200>>)
    /\ changelog_match # None
    /\ changelog_match.start = 1
    /\ changelog_notes = <<"X">>

====
